---- MODULE Spec2Model ----
(***************************************************************************)
(* Model of sysoff.c: estimation of the offset between a PTP hardware      *)
(* clock and the system clock (time codec, the four samplers, the best-of-N*)
(* sample selector, the method dispatcher and the capability prober).      *)
(*                                                                         *)
(* Representation.  int64_t values are plain integers (the inputs are kept *)
(* far from the 64-bit limits, so no C overflow occurs).  An unsigned      *)
(* field or output (ptp_clock_time.nsec, *ts) holds its bit pattern read   *)
(* as a two's complement number: two such values are equal exactly when    *)
(* the unsigned values are equal.                                          *)
(***************************************************************************)
EXTENDS Integers, Sequences, FiniteSets, TLC

VARIABLES
    buf,        \* sysoff_cross's static char buf[4096], as a sequence of cells
    out,        \* the caller's outputs [result, ts, delay] after the last call
    pre,        \* the caller's outputs when the last call was made
    op,         \* the last entry point called: "none", "measure", "probe", ...
    method,     \* the method argument of the last sysoff_measure call
    n_samples,  \* the n_samples argument of the last call
    dev,        \* what the device answered (or would have) during the last call
    ret,        \* the value the last call returned
    log,        \* the device requests the last call issued, in order
    warned,     \* the number of warnings the last call wrote to stderr
    arg,        \* the input of the last pure-function evaluation
    res         \* the result of the last pure-function evaluation

vars == <<buf, out, pre, op, method, n_samples, dev, ret, log, warned, arg, res>>

----------------------------------------------------------------------------
(* Constants of the program *)

NS_PER_SEC == 1000000000

NS_PER_MSEC == 1000000

\* linux/ptp_clock.h: the most samples one PTP_SYS_OFFSET* request may ask for
PTP_MAX_SAMPLES == 25

\* sysoff.h: the method ids, in fallback order
SYSOFF_RUN_TIME_MISSING == -1

SYSOFF_CROSS == 0

SYSOFF_PRECISE == 1

SYSOFF_EXTENDED == 2

SYSOFF_BASIC == 3

SYSOFF_LAST == 4

----------------------------------------------------------------------------
(* C arithmetic *)

\* C's integer division truncates toward zero (b > 0)
CDiv(a, b) == IF a >= 0 THEN a \div b ELSE -((-a) \div b)

\* C's remainder has the sign of the dividend (b > 0)
CRem(a, b) == a - b * CDiv(a, b)

\* the value of a __u32 field held as its 32-bit pattern
U32Value(b) == IF b >= 0 THEN b ELSE b + 65536 * 65536

----------------------------------------------------------------------------
(* Time codec *)

ZeroPct == [sec |-> 0, nsec |-> 0]

pctns(t) == t.sec * NS_PER_SEC + U32Value(t.nsec)

\* nspct dividing by the wrong unit
nspct_msec(t) == [sec |-> CDiv(t, NS_PER_MSEC), nsec |-> CRem(t, NS_PER_MSEC)]

nspct(t) == [sec |-> CDiv(t, NS_PER_SEC), nsec |-> CRem(t, NS_PER_SEC)]

----------------------------------------------------------------------------
(* The device, as seen through ioctl, poll and read.  One value of Device   *)
(* fixes what each request of one call is answered:                         *)
(*   arm      the return value of ioctl(PTP_CROSSTS_REQUEST)                *)
(*   precise  [rc, sys_realtime, device] of ioctl(PTP_SYS_OFFSET_PRECISE)   *)
(*   extended [rc, ts] of ioctl(PTP_SYS_OFFSET_EXTENDED); ts are the        *)
(*            entries the driver filled, from pso.ts[0][0] on               *)
(*   basic    [rc, ts] of ioctl(PTP_SYS_OFFSET), likewise                   *)
(*   poll     the return value of poll(&pfd, 1, 0)                          *)
(*   read     [ret, data] of read(fd, buf, sizeof(buf)); data are the cells *)
(*            delivered, Len(data) = ret when ret >= 0                      *)

\* a request as the log records it
Req(name, a) == [req |-> name, arg |-> a]

\* the outputs the caller passes by pointer
Outputs(r, t, d) == [result |-> r, ts |-> t, delay |-> d]

----------------------------------------------------------------------------
(* Cross events.  The event stream is measured in cells: one cell per field *)
(* of struct ptp_extts_event_cross (t, tstamp, flags), so that a read may   *)
(* end inside a record.                                                     *)

\* sizeof(struct ptp_extts_event_cross), in cells
EventSize == 3

\* the number of whole records buf holds
BufEvents == 3

\* sizeof(buf), in cells
BufSize == BufEvents * EventSize

NoFlags == [cross |-> FALSE, delay |-> 0]

\* flags & PTP_EVENT_CROSS
PTP_EVENT_CROSS(flags) == flags.cross

\* PTP_EVENT_CROSS_DELAY(flags)
PTP_EVENT_CROSS_DELAY(flags) == flags.delay

\* the cells of one record, in stream order
EventCells(e) == <<e.t, e.tstamp, e.flags>>

\* static storage is zero-initialised
ZeroBuf == [k \in 1..BufSize |->
              CASE k % EventSize = 1 -> ZeroPct
                [] k % EventSize = 2 -> 0
                [] OTHER -> NoFlags]

\* buf after read() stored data at its start
StoreRead(b, data) == [k \in 1..BufSize |-> IF k <= Len(data) THEN data[k] ELSE b[k]]

\* the record at &buf[idx * sizeof(*event)]
EventAt(b, idx) == [t      |-> b[idx * EventSize + 1],
                    tstamp |-> b[idx * EventSize + 2],
                    flags  |-> b[idx * EventSize + 3]]

\* variants of LastEvent: the first record read, and the last record of buf
FirstEvent(num) == 0

LastInBuffer(num) == BufEvents - 1

\* the index of the record sysoff_cross uses, of num complete ones
LastEvent(num) == num - 1

----------------------------------------------------------------------------
(* Samplers.  Each returns [ret, out, log] (sysoff_cross also buf): the     *)
(* return code, the caller's outputs after the call and the requests made.  *)

\* sysoff_precise storing its results before it looks at the request's outcome
sysoff_precise_early(d, o) ==
    LET pso == d.precise
        rq  == <<Req("PTP_SYS_OFFSET_PRECISE", 0)>>
        o2  == [o EXCEPT !.result = pctns(pso.sys_realtime) - pctns(pso.device),
                         !.ts = pctns(pso.sys_realtime)]
    IN  IF pso.rc # 0
        THEN [ret |-> SYSOFF_RUN_TIME_MISSING, out |-> o2, log |-> rq]
        ELSE [ret |-> SYSOFF_PRECISE, out |-> o2, log |-> rq]

sysoff_precise(d, o) ==
    LET pso == d.precise
        rq  == <<Req("PTP_SYS_OFFSET_PRECISE", 0)>>
    IN  IF pso.rc # 0
        THEN [ret |-> SYSOFF_RUN_TIME_MISSING, out |-> o, log |-> rq]
        ELSE [ret |-> SYSOFF_PRECISE,
              out |-> [o EXCEPT !.result = pctns(pso.sys_realtime) - pctns(pso.device),
                                !.ts = pctns(pso.sys_realtime)],
              log |-> rq]

\* the end of sysoff_cross: event is the record chosen from b2, the buffer read
CrossEvent(o, b2, rq, event) ==
    IF ~PTP_EVENT_CROSS(event.flags)
    THEN [ret |-> SYSOFF_RUN_TIME_MISSING, out |-> o, log |-> rq, buf |-> b2]
    ELSE [ret |-> SYSOFF_CROSS,
          out |-> Outputs(pctns(event.t) - event.tstamp, pctns(event.t),
                          PTP_EVENT_CROSS_DELAY(event.flags)),
          log |-> rq,
          buf |-> b2]

sysoff_cross(d, o, b) ==
    LET fail(rq, bb) == [ret |-> SYSOFF_RUN_TIME_MISSING, out |-> o, log |-> rq, buf |-> bb]
        rqPoll == <<Req("poll", 0)>>
        rqRead == rqPoll \o <<Req("read", BufSize)>>
    IN  IF d.poll < 1 THEN fail(rqPoll, b)
        ELSE IF d.read.ret < 0 THEN fail(rqRead, b)
        ELSE IF d.read.ret < EventSize THEN fail(rqRead, StoreRead(b, d.read.data))
        ELSE CrossEvent(o, StoreRead(b, d.read.data), rqRead,
                        EventAt(StoreRead(b, d.read.data),
                                LastEvent(d.read.ret \div EventSize)))

sysoff_cross_enable(d, period) ==
    LET rq == <<Req("PTP_CROSSTS_REQUEST", nspct(period))>>
    IN  IF d.arm # 0
        THEN [ret |-> SYSOFF_RUN_TIME_MISSING, log |-> rq]
        ELSE [ret |-> SYSOFF_CROSS, log |-> rq]

----------------------------------------------------------------------------
(* Sample selector *)

\* the array a request is handed: memset to zero, then filled by the driver
Pad(filled, len) == [k \in 1..len |-> IF k <= Len(filled) THEN filled[k] ELSE ZeroPct]

\* candidate i of pct (pct[k] of the program is pct[k + 1] here)
Candidate(pct, extended, i) ==
    IF extended # 0
    THEN [t1 |-> pctns(pct[3*i + 1]), tp |-> pctns(pct[3*i + 2]), t2 |-> pctns(pct[3*i + 3])]
    ELSE [t1 |-> pctns(pct[2*i + 1]), tp |-> pctns(pct[2*i + 2]), t2 |-> pctns(pct[2*i + 3])]

\* interval, timestamp and offset of a candidate
Measure3(c) ==
    LET timestamp == CDiv(c.t2 + c.t1, 2)
    IN  [interval |-> c.t2 - c.t1, timestamp |-> timestamp, offset |-> timestamp - c.tp]

\* variants of Shorter: a tie replaces the best candidate, and a wider one does
ShorterOrEqual(interval, shortest_interval) == interval <= shortest_interval

Longer(interval, shortest_interval) == interval > shortest_interval

\* the test that replaces the best candidate
Shorter(interval, shortest_interval) == interval < shortest_interval

\* the for loop, from index i on, best being the candidate kept so far
Better(m, best) == IF Shorter(m.interval, best.interval) THEN m ELSE best

RECURSIVE EstimateLoop(_, _, _, _, _)
EstimateLoop(pct, extended, n, i, best) ==
    IF ~(i < n) THEN best
    ELSE EstimateLoop(pct, extended, n, i + 1,
                      Better(Measure3(Candidate(pct, extended, i)), best))

\* what sysoff_estimate hands back: its return value, *ts and *delay
Estimate(best) == [offset |-> best.offset, ts |-> best.timestamp, delay |-> best.interval]

sysoff_estimate(pct, extended, n) ==
    Estimate(EstimateLoop(pct, extended, n, 1, Measure3(Candidate(pct, extended, 0))))

\* *result = sysoff_estimate(..., ts, delay)
Estimated(e) == Outputs(e.offset, e.ts, e.delay)

sysoff_extended(d, n, o) ==
    LET rq == <<Req("PTP_SYS_OFFSET_EXTENDED", n)>>
    IN  IF d.extended.rc # 0
        THEN [ret |-> SYSOFF_RUN_TIME_MISSING, out |-> o, log |-> rq]
        ELSE [ret |-> SYSOFF_EXTENDED,
              out |-> Estimated(sysoff_estimate(Pad(d.extended.ts, 3 * PTP_MAX_SAMPLES), 1, n)),
              log |-> rq]

\* sysoff_basic without the test of the request's outcome
sysoff_basic_unchecked(d, n, o) ==
    [ret |-> SYSOFF_BASIC,
     out |-> Estimated(sysoff_estimate(Pad(d.basic.ts, 2 * PTP_MAX_SAMPLES + 1), 0, n)),
     log |-> <<Req("PTP_SYS_OFFSET", n)>>]

sysoff_basic(d, n, o) ==
    LET rq == <<Req("PTP_SYS_OFFSET", n)>>
    IN  IF d.basic.rc # 0
        THEN [ret |-> SYSOFF_RUN_TIME_MISSING, out |-> o, log |-> rq]
        ELSE [ret |-> SYSOFF_BASIC,
              out |-> Estimated(sysoff_estimate(Pad(d.basic.ts, 2 * PTP_MAX_SAMPLES + 1), 0, n)),
              log |-> rq]

----------------------------------------------------------------------------
(* Dispatcher and prober *)

\* the dispatcher leaving delay as the caller passed it
KeepDelay(o) == o

\* *delay = 0
ClearDelay(o) == [o EXCEPT !.delay = 0]

\* returns [ret, out, log, buf]
sysoff_measure(d, m, n, o, b) ==
    CASE m = SYSOFF_CROSS    -> sysoff_cross(d, ClearDelay(o), b)
      [] m = SYSOFF_PRECISE  -> sysoff_precise(d, ClearDelay(o)) @@ [buf |-> b]
      [] m = SYSOFF_EXTENDED -> sysoff_extended(d, n, o) @@ [buf |-> b]
      [] m = SYSOFF_BASIC    -> sysoff_basic(d, n, o) @@ [buf |-> b]
      [] OTHER -> [ret |-> SYSOFF_RUN_TIME_MISSING, out |-> o, log |-> <<>>, buf |-> b]

\* the guard off by one
TooManySamplesOffByOne(n) == n > PTP_MAX_SAMPLES + 1

\* the guard that rejects a request before the device is touched
TooManySamples(n) == n > PTP_MAX_SAMPLES

\* the fallback loop starting at Cross itself
FallbackFromCross == SYSOFF_CROSS

\* the first method the fallback loop tries
FirstFallback == SYSOFF_CROSS + 1

\* junk, ts and delay of sysoff_probe: written by the samplers, never read
JunkOut == Outputs(0, 0, 0)

\* the for loop of sysoff_probe from method i on; lg are the requests made so far
\* and r is what sysoff_measure returned for method i
RECURSIVE ProbeLoop(_, _, _, _, _)
ProbeBody(d, n, i, lg, r) ==
    IF r.ret < 0
    THEN ProbeLoop(d, n, i + 1, lg \o r.log, r.buf)
    ELSE [ret |-> i, log |-> lg \o r.log, buf |-> r.buf]

ProbeLoop(d, n, i, lg, b) ==
    IF ~(i < SYSOFF_LAST)
    THEN [ret |-> SYSOFF_RUN_TIME_MISSING, log |-> lg, buf |-> b]
    ELSE ProbeBody(d, n, i, lg, sysoff_measure(d, i, n, JunkOut, b))

\* sysoff_probe once the sample count is accepted; en is what sysoff_cross_enable
\* returned
ProbeMethods(d, n, b, en) ==
    IF en.ret >= 0
    THEN [ret |-> SYSOFF_CROSS, log |-> en.log, buf |-> b, warned |-> 0]
    ELSE ProbeLoop(d, n, FirstFallback, en.log, b) @@ [warned |-> 0]

\* returns [ret, log, buf, warned]
sysoff_probe(d, n, b) ==
    IF TooManySamples(n)
    THEN [ret |-> SYSOFF_RUN_TIME_MISSING, log |-> <<>>, buf |-> b, warned |-> 1]
    ELSE ProbeMethods(d, n, b, sysoff_cross_enable(d, 1 * NS_PER_MSEC))

----------------------------------------------------------------------------
(* Inputs of the state machine *)

T(s, ns) == [sec |-> s, nsec |-> ns]

\* the most candidates a modelled driver answer fills
MaxFill == 2

\* what the caller's result, ts and delay may hold when a call is made
CallerOuts == {Outputs(0, 0, 0), Outputs(7, 8, 9)}

\* method arguments: the four methods and two values that are none of them
MethodArgs == {SYSOFF_CROSS, SYSOFF_PRECISE, SYSOFF_EXTENDED, SYSOFF_BASIC,
               SYSOFF_LAST, SYSOFF_RUN_TIME_MISSING}

\* n_samples arguments the kernel accepts
NSamples == {1, 2, 3, PTP_MAX_SAMPLES}

\* n_samples arguments of sysoff_probe: also some above the maximum
ProbeSamples == {1, PTP_MAX_SAMPLES, PTP_MAX_SAMPLES + 1, 100}

FailedPrecise == [rc |-> -1, sys_realtime |-> ZeroPct, device |-> ZeroPct]

PreciseAnswers ==
    {FailedPrecise} \cup
    {[rc |-> 0, sys_realtime |-> s, device |-> h] :
        s \in {T(2, 0), T(0, 40)}, h \in {T(1, 999999950), T(0, 100)}}

FailedOffset == [rc |-> -1, ts |-> <<>>]

\* timestamps whose brackets widen, and timestamps whose brackets narrow
Widening(len) == [k \in 1..len |-> T(0, 10 * k * k)]

Narrowing(len) == [k \in 1..len |-> T(1, 1000 * k - 10 * k * k)]

ExtendedAnswers ==
    {FailedOffset} \cup
    {[rc |-> 0, ts |-> Widening(3 * k)] : k \in 0..MaxFill} \cup
    {[rc |-> 0, ts |-> Narrowing(3 * k)] : k \in 0..MaxFill}

BasicAnswers ==
    {FailedOffset} \cup
    {[rc |-> 0, ts |-> Widening(2 * k + 1)] : k \in 0..MaxFill} \cup
    {[rc |-> 0, ts |-> Narrowing(2 * k + 1)] : k \in 0..MaxFill}

\* records of the event stream: two valid ones and one without the cross flag
EventA == [t |-> T(1, 5), tstamp |-> 1000000000, flags |-> [cross |-> TRUE, delay |-> 3]]

EventB == [t |-> T(0, 7), tstamp |-> 9, flags |-> [cross |-> TRUE, delay |-> 4]]

EventBad == [t |-> T(0, 8), tstamp |-> 2, flags |-> [cross |-> FALSE, delay |-> 6]]

Events == {EventA, EventB, EventBad}

RECURSIVE EventSeqs(_)
EventSeqs(n) ==
    IF n = 0 THEN {<<>>}
    ELSE LET shorter == EventSeqs(n - 1)
         IN  shorter \cup {<<e>> \o s : e \in Events, s \in {x \in shorter : Len(x) = n - 1}}

RECURSIVE Flatten(_)
Flatten(es) == IF es = <<>> THEN <<>> ELSE EventCells(Head(es)) \o Flatten(Tail(es))

\* what one read may deliver: up to sizeof(buf) cells of back-to-back records,
\* the last record possibly cut short
Streams ==
    UNION {{SubSeq(Flatten(es), 1, k) : k \in 0..(Len(es) * EventSize)} :
              es \in EventSeqs(BufEvents)}

\* one stream of sizeof(buf) cells: EventA, EventBad, EventB, EventA, ...
Queue ==
    Flatten([j \in 1..BufEvents |->
                CASE j % 3 = 1 -> EventA [] j % 3 = 2 -> EventBad [] OTHER -> EventB])

\* the reads of the full state machine deliver the first cells of Queue
QueueStreams == {SubSeq(Queue, 1, k) : k \in 0..BufSize}

FailedRead == [ret |-> -1, data |-> <<>>]

ReadAnswers(streams) == {FailedRead} \cup {[ret |-> Len(x), data |-> x] : x \in streams}

\* a device that refuses everything
DeadDevice == [arm |-> -1, precise |-> FailedPrecise, extended |-> FailedOffset,
               basic |-> FailedOffset, poll |-> 0, read |-> FailedRead]

\* event streams with nothing to read, and with a read that fails or delivers
CrossDevices(streams) ==
    {[DeadDevice EXCEPT !.poll = p] : p \in {-1, 0}} \cup
    {[DeadDevice EXCEPT !.poll = 1, !.read = r] : r \in ReadAnswers(streams)}

\* the answers that matter to a sysoff_measure call of method m
DevicesFor(m, streams) ==
    CASE m = SYSOFF_CROSS    -> CrossDevices(streams)
      [] m = SYSOFF_PRECISE  -> {[DeadDevice EXCEPT !.precise = a] : a \in PreciseAnswers}
      [] m = SYSOFF_EXTENDED -> {[DeadDevice EXCEPT !.extended = a] : a \in ExtendedAnswers}
      [] m = SYSOFF_BASIC    -> {[DeadDevice EXCEPT !.basic = a] : a \in BasicAnswers}
      [] OTHER -> {DeadDevice}

\* n_samples is read by the Extended and Basic samplers only
SamplesFor(m) == IF m \in {SYSOFF_EXTENDED, SYSOFF_BASIC} THEN NSamples ELSE {1}

\* devices a probe may meet: each request refused or answered
ProbeDevices ==
    {[arm |-> a, precise |-> p, extended |-> e, basic |-> b, poll |-> q, read |-> r] :
        a \in {0, -1},
        p \in {FailedPrecise, [rc |-> 0, sys_realtime |-> T(2, 0), device |-> T(1, 999999950)]},
        e \in {FailedOffset, [rc |-> 0, ts |-> Widening(3)]},
        b \in {FailedOffset, [rc |-> 0, ts |-> Narrowing(5)]},
        q \in {1},
        r \in {[ret |-> EventSize, data |-> EventCells(EventA)]}}

NoOutputs == Outputs(0, 0, 0)

NoArg == <<>>

----------------------------------------------------------------------------
(* The state machine: calls of the two entry points, in any order *)

Init ==
    /\ buf = ZeroBuf
    /\ out = NoOutputs
    /\ pre = NoOutputs
    /\ op = "none"
    /\ method = SYSOFF_RUN_TIME_MISSING
    /\ n_samples = 0
    /\ dev = DeadDevice
    /\ ret = 0
    /\ log = <<>>
    /\ warned = 0
    /\ arg = NoArg
    /\ res = NoArg

\* the state after sysoff_measure(fd, m, n, &result, &ts, &delay) returned r
Measured(m, n, o, d, r) ==
    /\ buf' = r.buf
    /\ out' = r.out
    /\ pre' = o
    /\ op' = "measure"
    /\ method' = m
    /\ n_samples' = n
    /\ dev' = d
    /\ ret' = r.ret
    /\ log' = r.log
    /\ warned' = 0
    /\ UNCHANGED <<arg, res>>

\* a call of sysoff_measure whose reads, if any, deliver one of streams
MeasureWith(streams) ==
    \E m \in MethodArgs :
      \E n \in SamplesFor(m), o \in CallerOuts, d \in DevicesFor(m, streams) :
        Measured(m, n, o, d, sysoff_measure(d, m, n, o, buf))

Measure == MeasureWith(QueueStreams)

\* the state after sysoff_probe(fd, n) returned r
Probed(n, d, r) ==
    /\ buf' = r.buf
    /\ out' = NoOutputs
    /\ pre' = NoOutputs
    /\ op' = "probe"
    /\ method' = SYSOFF_RUN_TIME_MISSING
    /\ n_samples' = n
    /\ dev' = d
    /\ ret' = r.ret
    /\ log' = r.log
    /\ warned' = r.warned
    /\ UNCHANGED <<arg, res>>

Probe ==
    \E n \in ProbeSamples, d \in ProbeDevices :
        Probed(n, d, sysoff_probe(d, n, buf))

Next == Measure \/ Probe

Spec == Init /\ [][Next]_vars

----------------------------------------------------------------------------
(* One call of sysoff_measure, made when earlier calls have left anything in *)
(* buf: the reads deliver any stream, and buf starts as any one earlier read *)
(* left it.                                                                  *)

StaleBufs == {StoreRead(ZeroBuf, x) : x \in Streams}

InitStale ==
    /\ buf \in StaleBufs
    /\ out = NoOutputs
    /\ pre = NoOutputs
    /\ op = "none"
    /\ method = SYSOFF_RUN_TIME_MISSING
    /\ n_samples = 0
    /\ dev = DeadDevice
    /\ ret = 0
    /\ log = <<>>
    /\ warned = 0
    /\ arg = NoArg
    /\ res = NoArg

MeasureOnce == op = "none" /\ MeasureWith(Streams)

NextStale == MeasureOnce

SpecStale == InitStale /\ [][NextStale]_vars

----------------------------------------------------------------------------
(* The time codec on its own: a timestamp is converted to nanoseconds and    *)
(* back.                                                                     *)

\* nanosecond fields: in range, and two that are not normalised
CodecNsecs == {0, 1, 999, 1000000, 147483647, 500000000, 999999998, 999999999,
               1000000000, 1000000001}

\* the timestamps converted; the model's integers hold counts below 2^31
CodecInputs ==
    {t \in [sec : -2..2, nsec : CodecNsecs] : t.sec = 2 => t.nsec <= 147483647}

Idle ==
    /\ buf = ZeroBuf
    /\ out = NoOutputs
    /\ pre = NoOutputs
    /\ method = SYSOFF_RUN_TIME_MISSING
    /\ n_samples = 0
    /\ dev = DeadDevice
    /\ ret = 0
    /\ log = <<>>
    /\ warned = 0

Frame == UNCHANGED <<buf, out, pre, method, n_samples, dev, ret, log, warned>>

InitCodec ==
    /\ Idle
    /\ op = "none"
    /\ arg \in CodecInputs
    /\ res = NoArg

\* ns = pctns(&t)
Pctns ==
    /\ op = "none"
    /\ op' = "pctns"
    /\ res' = [ns |-> pctns(arg), pct |-> ZeroPct]
    /\ UNCHANGED arg
    /\ Frame

\* nspct(ns, &pct)
Nspct ==
    /\ op = "pctns"
    /\ op' = "nspct"
    /\ res' = [res EXCEPT !.pct = nspct(res.ns)]
    /\ UNCHANGED arg
    /\ Frame

NextCodec == Pctns \/ Nspct

SpecCodec == InitCodec /\ [][NextCodec]_vars

----------------------------------------------------------------------------
(* The sample selector on its own *)

\* the most candidates of a buffer handed to the selector
MaxN == 3

\* the timestamps of the buffers: -10 ns and 5 ns
SelectorPcts == {T(-1, 999999990), T(0, 5)}

\* the buffers of len timestamps
PctSeqs(len) == [1..len -> SelectorPcts]

\* a buffer of MaxN candidates in either layout, of which n are to be considered
BufferInput(a) ==
    \E n \in 1..MaxN, ext \in {0, 1} :
      \E p \in PctSeqs(IF ext = 1 THEN 3 * MaxN ELSE 2 * MaxN + 1) :
        a = [kind |-> "buffer", pct |-> p, extended |-> ext, n |-> n,
             extra |-> <<>>, pos |-> 0]

\* n independent triplets, and one more to insert before triplet pos
InsertInput(a) ==
    \E n \in 1..MaxN :
      \E p \in PctSeqs(3 * n), x \in PctSeqs(3), k \in 0..n :
        a = [kind |-> "insert", pct |-> p, extended |-> 1, n |-> n,
             extra |-> x, pos |-> k]

\* pct with the triplet extra inserted before triplet pos (0: at the front)
InsertTriplet(pct, extra, pos) ==
    SubSeq(pct, 1, 3 * pos) \o extra \o SubSeq(pct, 3 * pos + 1, Len(pct))

InitSelector ==
    /\ Idle
    /\ op = "none"
    /\ BufferInput(arg) \/ InsertInput(arg)
    /\ res = NoArg

\* sysoff_estimate(pct, extended, n, &ts, &delay)
Select ==
    /\ op = "none"
    /\ arg.kind = "buffer"
    /\ op' = "estimate"
    /\ res' = sysoff_estimate(arg.pct, arg.extended, arg.n)
    /\ UNCHANGED arg
    /\ Frame

\* sysoff_estimate on the triplets, and on the triplets with one more inserted
SelectInserted ==
    /\ op = "none"
    /\ arg.kind = "insert"
    /\ op' = "inserted"
    /\ res' = [without |-> sysoff_estimate(arg.pct, 1, arg.n),
               with    |-> sysoff_estimate(InsertTriplet(arg.pct, arg.extra, arg.pos),
                                           1, arg.n + 1)]
    /\ UNCHANGED arg
    /\ Frame

NextSelector == Select \/ SelectInserted

SpecSelector == InitSelector /\ [][NextSelector]_vars

----------------------------------------------------------------------------
(* Properties *)

\* candidate i of a buffer as the layouts are documented: entries
\* (3i, 3i+1, 3i+2) when extended, (2i, 2i+1, 2i+2) otherwise
Bracket(pct, extended, i) ==
    LET stride == IF extended # 0 THEN 3 ELSE 2
    IN  [before |-> pctns(pct[stride * i + 1]),
         hw     |-> pctns(pct[stride * i + 2]),
         after  |-> pctns(pct[stride * i + 3])]

Width(c) == c.after - c.before

\* the lowest index among the n candidates of smallest width
Narrowest(pct, extended, n) ==
    CHOOSE i \in 0..(n - 1) :
        \A j \in 0..(n - 1) :
            \/ Width(Bracket(pct, extended, i)) < Width(Bracket(pct, extended, j))
            \/ Width(Bracket(pct, extended, i)) = Width(Bracket(pct, extended, j)) /\ i <= j

\* C1: for every n >= 1 and every buffer, sysoff_estimate returns the values of
\* the candidate with the smallest after - before among candidates 0..n-1 of the
\* layout, the lowest index on a tie: delay = after - before, timestamp =
\* (after + before) / 2, offset = timestamp - hw, all of that one candidate.
C1_SelectsNarrowest ==
    (op = "estimate" /\ arg.n >= 1) =>
        LET c == Bracket(arg.pct, arg.extended, Narrowest(arg.pct, arg.extended, arg.n))
        IN  /\ res.delay = Width(c)
            /\ res.ts = CDiv(c.after + c.before, 2)
            /\ res.offset = CDiv(c.after + c.before, 2) - c.hw

\* a Basic buffer of three candidates (-10, 5, 5), (5, -10, 5), (5, 5, 5): the
\* last two tie at width 0 and the second, of offset 15, is returned
C1_Witness ==
    /\ op = "estimate"
    /\ arg.extended = 0
    /\ arg.n = 3
    /\ SubSeq(arg.pct, 1, 7) = <<T(-1, 999999990), T(0, 5), T(0, 5), T(-1, 999999990),
                                 T(0, 5), T(0, 5), T(0, 5)>>
    /\ res = [offset |-> 15, ts |-> 5, delay |-> 0]

\* the method a successful request of sysoff_probe selects, by position
ProbeOrder == <<"PTP_CROSSTS_REQUEST", "PTP_SYS_OFFSET_PRECISE",
                "PTP_SYS_OFFSET_EXTENDED", "PTP_SYS_OFFSET">>

ProbeMethod == <<SYSOFF_CROSS, SYSOFF_PRECISE, SYSOFF_EXTENDED, SYSOFF_BASIC>>

\* what the device answers the k-th request of ProbeOrder
Refused(d, k) == <<d.arm, d.precise.rc, d.extended.rc, d.basic.rc>>[k] # 0

RequestNames(lg) == [k \in 1..Len(lg) |-> lg[k].req]

\* C2: with n_samples within the maximum, sysoff_probe issues the requests
\* arm-Cross, Precise, Extended, Basic in that order, each at most once, stops at
\* the first that succeeds and returns its method (no poll or read of the event
\* stream is ever made); it returns RuntimeMissing only after all four failed.
C2_ProbeOrder ==
    (op = "probe" /\ n_samples <= PTP_MAX_SAMPLES) =>
        /\ Len(log) \in 1..4
        /\ RequestNames(log) = SubSeq(ProbeOrder, 1, Len(log))
        /\ \A k \in 1..(Len(log) - 1) : Refused(dev, k)
        /\ IF Refused(dev, Len(log))
           THEN Len(log) = 4 /\ ret = SYSOFF_RUN_TIME_MISSING
           ELSE ret = ProbeMethod[Len(log)]

\* arming and Precise are refused, Extended answers: three requests, Extended
C2_Witness ==
    /\ op = "probe"
    /\ n_samples = PTP_MAX_SAMPLES
    /\ dev.arm # 0 /\ dev.precise.rc # 0 /\ dev.extended.rc = 0
    /\ Len(log) = 3
    /\ ret = SYSOFF_EXTENDED

\* C3: with n_samples above the maximum, sysoff_probe returns RuntimeMissing
\* after one warning and without any request to the device, whatever the
\* device would have answered.
C3_Oversized ==
    (op = "probe" /\ n_samples > PTP_MAX_SAMPLES) =>
        /\ ret = SYSOFF_RUN_TIME_MISSING
        /\ log = <<>>
        /\ warned = 1

\* one sample too many, on a device that would have armed Cross
C3_Witness ==
    /\ op = "probe"
    /\ n_samples = PTP_MAX_SAMPLES + 1
    /\ dev.arm = 0
    /\ ret = SYSOFF_RUN_TIME_MISSING
    /\ log = <<>>

\* the last complete record among the cells a read delivered
LastRecord(data) ==
    LET k == Len(data) \div EventSize
    IN  [t      |-> data[(k - 1) * EventSize + 1],
         tstamp |-> data[(k - 1) * EventSize + 2],
         flags  |-> data[(k - 1) * EventSize + 3]]

\* C4: the Cross sampler returns RuntimeMissing when poll reports no data, when
\* the read fails or delivers less than one record, or when the last complete
\* record delivered has no cross flag; otherwise it returns Cross with offset =
\* pctns(t) - tstamp, timestamp = pctns(t) and delay = the delay field of flags,
\* all of that last complete record.
C4_CrossLastRecord ==
    (op = "measure" /\ method = SYSOFF_CROSS) =>
        IF dev.poll < 1 \/ dev.read.ret < EventSize
        THEN ret = SYSOFF_RUN_TIME_MISSING
        ELSE LET e == LastRecord(dev.read.data)
             IN  IF ~e.flags.cross
                 THEN ret = SYSOFF_RUN_TIME_MISSING
                 ELSE /\ ret = SYSOFF_CROSS
                      /\ out = Outputs(pctns(e.t) - e.tstamp, pctns(e.t), e.flags.delay)

\* a read of EventA, EventBad, EventB: the third record alone decides
C4_Witness ==
    /\ op = "measure"
    /\ method = SYSOFF_CROSS
    /\ dev.poll = 1
    /\ dev.read.data = Flatten(<<EventA, EventBad, EventB>>)
    /\ ret = SYSOFF_CROSS
    /\ out = Outputs(-2, 7, 4)

\* the control request of the sampler of method m was refused
RequestRefused(d, m) ==
    CASE m = SYSOFF_PRECISE  -> d.precise.rc # 0
      [] m = SYSOFF_EXTENDED -> d.extended.rc # 0
      [] m = SYSOFF_BASIC    -> d.basic.rc # 0
      [] m = SYSOFF_CROSS    -> d.poll < 1 \/ d.read.ret < 0
      [] OTHER -> FALSE

KnownMethods == {SYSOFF_PRECISE, SYSOFF_CROSS, SYSOFF_EXTENDED, SYSOFF_BASIC}

\* C5: sysoff_measure returns the requested method's id or RuntimeMissing and
\* nothing else; a refused control request of any sampler, Basic included,
\* yields RuntimeMissing; a method that is none of the four yields
\* RuntimeMissing without any request to the device.
C5_OneFailure ==
    (op = "measure") =>
        /\ ret \in {method, SYSOFF_RUN_TIME_MISSING}
        /\ RequestRefused(dev, method) => ret = SYSOFF_RUN_TIME_MISSING
        /\ method \notin KnownMethods => ret = SYSOFF_RUN_TIME_MISSING /\ log = <<>>

\* a refused PTP_SYS_OFFSET request
C5_Witness ==
    /\ op = "measure"
    /\ method = SYSOFF_BASIC
    /\ dev.basic.rc # 0
    /\ RequestNames(log) = <<"PTP_SYS_OFFSET">>
    /\ ret = SYSOFF_RUN_TIME_MISSING

\* the outputs of the last call do not depend on what the caller's held (a
\* read stores the same cells again, so buf may be taken as the call left it)
ProducedByCall ==
    \A o \in CallerOuts : sysoff_measure(dev, method, n_samples, o, buf).out = out

\* C6 as claimed: sysoff_measure either succeeds with all three outputs
\* produced by the call, or returns RuntimeMissing with none of the caller's
\* three outputs modified.
C6_NoPartialResult ==
    (op = "measure") =>
        \/ ret = method /\ ret # SYSOFF_RUN_TIME_MISSING /\ ProducedByCall
        \/ ret = SYSOFF_RUN_TIME_MISSING /\ out = pre

\* C6 as amended: sysoff_measure either succeeds with all three outputs
\* produced by the call, or returns RuntimeMissing with result and ts
\* unmodified, and delay unmodified for Extended, Basic and unknown methods
\* but set to 0 for Precise and Cross.
C6_NoPartialResultButDelay ==
    (op = "measure") =>
        \/ ret = method /\ ret # SYSOFF_RUN_TIME_MISSING /\ ProducedByCall
        \/ /\ ret = SYSOFF_RUN_TIME_MISSING
           /\ out.result = pre.result
           /\ out.ts = pre.ts
           /\ out.delay = IF method \in {SYSOFF_PRECISE, SYSOFF_CROSS} THEN 0 ELSE pre.delay

\* a refused Precise request: result and ts are kept, delay 9 has become 0
C6_Witness ==
    /\ op = "measure"
    /\ method = SYSOFF_PRECISE
    /\ ret = SYSOFF_RUN_TIME_MISSING
    /\ pre = Outputs(7, 8, 9)
    /\ out = Outputs(7, 8, 0)

\* the width of triplet k (from 0) of a buffer of independent triplets
TripletWidth(pct, k) == pctns(pct[3 * k + 3]) - pctns(pct[3 * k + 1])

\* C7: for every non-empty sequence of independent triplets and every extra
\* triplet strictly wider than the narrowest of them, inserting the extra
\* triplet at any position leaves the selector's offset, timestamp and delay
\* unchanged.
C7_WiderSampleIgnored ==
    (/\ op = "inserted"
     /\ \E k \in 0..(arg.n - 1) : TripletWidth(arg.extra, 0) > TripletWidth(arg.pct, k)) =>
        res.with = res.without

\* (-10, 5, 5) inserted between (5, 5, 5) and (5, -10, 5)
C7_Witness ==
    /\ op = "inserted"
    /\ arg.n = 2
    /\ arg.pos = 1
    /\ arg.extra = <<T(-1, 999999990), T(0, 5), T(0, 5)>>
    /\ arg.pct = <<T(0, 5), T(0, 5), T(0, 5), T(0, 5), T(-1, 999999990), T(0, 5)>>
    /\ res.with = [offset |-> 0, ts |-> 5, delay |-> 0]
    /\ res.without = res.with

\* C8: for every timestamp t with sec >= 0 and nsec in [0, 1e9), nspct applied
\* to pctns(t) yields the sec and nsec of t.
C8_RoundTrip ==
    (op = "nspct" /\ arg.sec >= 0 /\ arg.nsec >= 0 /\ arg.nsec < NS_PER_SEC) =>
        res.pct.sec = arg.sec /\ res.pct.nsec = arg.nsec

\* 2.147483647 s goes through 2147483647 ns
C8_Witness ==
    /\ op = "nspct"
    /\ arg = T(2, 147483647)
    /\ res.ns = 2147483647
    /\ res.pct = T(2, 147483647)

\* C9: the outcome of a sysoff_measure call (return code, offset, timestamp,
\* delay) depends on the method, n_samples and the device's answers only, not
\* on what earlier calls left in the sampler's buffer: it is the outcome of the
\* same call made with the buffer as it was at program start.
C9_NoStateBetweenCalls ==
    (op = "measure") =>
        /\ ret = sysoff_measure(dev, method, n_samples, pre, ZeroBuf).ret
        /\ out = sysoff_measure(dev, method, n_samples, pre, ZeroBuf).out

\* a read of one valid record after an earlier read that filled the buffer
\* with valid records, which are still there
C9_Witness ==
    /\ op = "measure"
    /\ method = SYSOFF_CROSS
    /\ dev.read.data = EventCells(EventB)
    /\ ret = SYSOFF_CROSS
    /\ out = Outputs(-2, 7, 4)
    /\ \A k \in 1..(BufEvents - 1) : EventAt(buf, k) = EventA

\* C10: after sysoff_measure with method Precise, delay is 0 whether the
\* request succeeded or failed, and on success offset = pctns(sys_realtime) -
\* pctns(device) and timestamp = pctns(sys_realtime); after sysoff_measure with
\* method Cross returned RuntimeMissing, delay is 0, whatever the caller's
\* delay held.
C10_DelayMeaningful ==
    (op = "measure") =>
        /\ method = SYSOFF_PRECISE =>
              /\ out.delay = 0
              /\ ret = SYSOFF_PRECISE =>
                    /\ out.result = pctns(dev.precise.sys_realtime) - pctns(dev.precise.device)
                    /\ out.ts = pctns(dev.precise.sys_realtime)
        /\ (method = SYSOFF_CROSS /\ ret = SYSOFF_RUN_TIME_MISSING) => out.delay = 0

\* a Cross measurement whose last record has no cross flag, called with delay 9
C10_Witness ==
    /\ op = "measure"
    /\ method = SYSOFF_CROSS
    /\ dev.poll = 1
    /\ dev.read.ret >= 2 * EventSize
    /\ ret = SYSOFF_RUN_TIME_MISSING
    /\ pre.delay = 9
    /\ out.delay = 0

====
